---- MODULE Spec2Model ----
(***************************************************************************)
(* The calculator of src/script.js as a state machine.                     *)
(*                                                                         *)
(* State: the three module-level variables previousValue,                  *)
(* currentOperation, shouldResetDisplay and the text of the two DOM        *)
(* elements mainDisplay and operationDisplay.  Texts are sequences of      *)
(* one-character strings.  A JavaScript number is a record                 *)
(*   [kind |-> "num", units |-> u]   the value u / Scale                   *)
(*   [kind |-> "nan", units |-> 0]   NaN                                   *)
(*   [kind |-> "null", units |-> 0]  null (previousValue only)             *)
(*   [kind |-> "out", units |-> 0]   a value the model does not represent  *)
(*   [kind |-> "double", text |-> t] the double that String shows as t,    *)
(*                                   which is no multiple of 1 / Scale     *)
(* [kind |-> "num", units |-> u] is the double nearest to u / Scale.       *)
(* Arithmetic is modelled where IEEE-754 double arithmetic is exact        *)
(* (dyadic operands and result, magnitude at most MaxVal); products of     *)
(* other operands are rounded as the double multiplication rounds them,    *)
(* in the decimal calculations of SpecDecimal.  A handler whose            *)
(* calculation leaves that domain is not explored further.  -0 is          *)
(* modelled as 0: String(-0) is "0", -0 === 0, and no handler can tell     *)
(* them apart.                                                             *)
(***************************************************************************)
EXTENDS Integers, Sequences, FiniteSets

\* Longest text the digit and decimal handlers are allowed to build.
MaxLen == 3
\* Largest magnitude of an operand or result of a modelled calculation.
MaxVal == 25

\* The digit keys that are pressed.
DigitSet == {"0", "2", "5"}
\* The digit keys of the keypad.
AllDigits == {"0", "1", "2", "3", "4", "5", "6", "7", "8", "9"}
\* The operators handleOperation is called with.
OperatorSet == {"+", "-", "*", "/"}

FracDigits == MaxLen - 2
Scale == 10 ^ FracDigits
Limit == MaxVal * Scale

VARIABLES mainDisplay, operationDisplay, previousValue, currentOperation,
          shouldResetDisplay, alerted, lastOp, scn

vars == <<mainDisplay, operationDisplay, previousValue, currentOperation,
          shouldResetDisplay, alerted, lastOp, scn>>

------------------------------------------------------------------------------
\* Numbers

NoOperation == "null"
NoAlert == "none"
Null == [kind |-> "null", units |-> 0]
NaN == [kind |-> "nan", units |-> 0]
Out == [kind |-> "out", units |-> 0]
Num(u) == [kind |-> "num", units |-> u]
Double(t) == [kind |-> "double", text |-> t]

Abs(n) == IF n < 0 THEN -n ELSE n
Sign(n) == IF n < 0 THEN -1 ELSE 1

DigitChars == <<"0", "1", "2", "3", "4", "5", "6", "7", "8", "9">>
IsDigit(c) == \E i \in 1..10 : DigitChars[i] = c
DigitVal(c) == (CHOOSE i \in 1..10 : DigitChars[i] = c) - 1

\* A double that the decimal fractions of a text with FracDigits fractional
\* digits denote exactly: its fractional part is a multiple of 2^-FracDigits.
Dyadic(u) == u % (5 ^ FracDigits) = 0
Exact(x) == x.kind = "num" /\ Abs(x.units) <= Limit /\ Dyadic(x.units)

RECURSIVE IntText(_)
IntText(n) ==
    IF n < 10 THEN <<DigitChars[n + 1]>>
    ELSE IntText(n \div 10) \o <<DigitChars[(n % 10) + 1]>>

\* The digits of f / 10^w after the point, trailing zeros dropped.
RECURSIVE FracText(_, _)
FracText(f, w) ==
    IF f = 0 THEN <<>>
    ELSE <<DigitChars[(f \div (10 ^ (w - 1))) + 1]>> \o FracText(f % (10 ^ (w - 1)), w - 1)

\* String(number)
String(x) ==
    IF x.kind = "nan" THEN <<"N", "a", "N">>
    ELSE IF x.kind = "null" THEN <<"n", "u", "l", "l">>
    ELSE IF x.kind = "out" THEN <<"#">>
    ELSE IF x.kind = "double" THEN x.text
    ELSE LET a == Abs(x.units)
             f == a % Scale
         IN  (IF x.units < 0 THEN <<"-">> ELSE <<>>)
             \o IntText(a \div Scale)
             \o (IF f = 0 THEN <<>> ELSE <<".">> \o FracText(f, FracDigits))

\* The longest prefix of t made of digits.
RECURSIVE DigitRun(_)
DigitRun(t) ==
    IF t = <<>> \/ ~IsDigit(Head(t)) THEN <<>>
    ELSE <<Head(t)>> \o DigitRun(Tail(t))

RECURSIVE DigitsValue(_)
DigitsValue(t) ==
    IF t = <<>> THEN 0
    ELSE 10 * DigitsValue(SubSeq(t, 1, Len(t) - 1)) + DigitVal(t[Len(t)])

Drop(t, n) == SubSeq(t, n + 1, Len(t))

\* parseFloat(text): optional sign, digits, optional point and digits; the
\* rest of the text is ignored; NaN when no digit was read.
ParseFloat(t) ==
    LET neg == t # <<>> /\ Head(t) = "-"
        body == IF neg THEN Tail(t) ELSE t
        ip == DigitRun(body)
        rest == Drop(body, Len(ip))
        fp == IF rest # <<>> /\ Head(rest) = "." THEN DigitRun(Tail(rest)) ELSE <<>>
    IN  IF ip = <<>> /\ fp = <<>> THEN NaN
        ELSE IF Len(fp) > FracDigits THEN Out
        ELSE LET u == DigitsValue(ip) * Scale
                      + DigitsValue(fp) * (10 ^ (FracDigits - Len(fp)))
             IN  Num(IF neg THEN -u ELSE u)

------------------------------------------------------------------------------
\* Doubles: the multiplication of IEEE-754 binary64 numbers and String of its
\* result, on natural numbers of any size.

\* Natural numbers of any size: the digits to the base Base, the lowest
\* first, the highest not 0; <<>> is 0.
Base == 10000

\* The digit of A at position i, 0 above the highest.
BigAt(A, i) == IF i <= Len(A) THEN A[i] ELSE 0

\* A without its highest digits that are 0
BigTrim(A) ==
    SubSeq(A, 1, CHOOSE n \in 0..Len(A) :
                     (n = 0 \/ A[n] # 0) /\ \A k \in (n + 1)..Len(A) : A[k] = 0)

RECURSIVE BigOf(_)
BigOf(n) == IF n = 0 THEN <<>> ELSE <<n % Base>> \o BigOf(n \div Base)

\* A * m + c for 0 < m < Base and 0 <= c < Base
RECURSIVE BigTimes(_, _, _)
BigTimes(A, m, c) ==
    IF A = <<>> THEN BigOf(c)
    ELSE <<(Head(A) * m + c) % Base>> \o BigTimes(Tail(A), m, (Head(A) * m + c) \div Base)

\* Whether adding A and B carries into position i.
BigCarries(A, B, i) ==
    \E j \in 1..(i - 1) :
        /\ BigAt(A, j) + BigAt(B, j) >= Base
        /\ \A k \in (j + 1)..(i - 1) : BigAt(A, k) + BigAt(B, k) = Base - 1

\* A + B
BigPlus(A, B) ==
    BigTrim([i \in 1..((IF Len(A) > Len(B) THEN Len(A) ELSE Len(B)) + 1) |->
                (BigAt(A, i) + BigAt(B, i) + (IF BigCarries(A, B, i) THEN 1 ELSE 0)) % Base])

\* A * B
RECURSIVE BigProduct(_, _)
BigProduct(A, B) ==
    IF A = <<>> \/ B = <<>> THEN <<>>
    ELSE BigPlus(BigTrim(BigTimes(A, Head(B), 0)),
                 BigTrim(<<0>> \o BigProduct(A, Tail(B))))

\* -1, 0 or 1 as A is less than, equal to or greater than B
BigCompare(A, B) ==
    IF Len(A) # Len(B) THEN (IF Len(A) < Len(B) THEN -1 ELSE 1)
    ELSE IF A = B THEN 0
    ELSE IF \E i \in 1..Len(A) : A[i] < B[i] /\ \A k \in (i + 1)..Len(A) : A[k] = B[k]
    THEN -1 ELSE 1

\* The remainder by m < Base of the number that the digits of A from position
\* i upward are.
RECURSIVE BigRemainder(_, _, _)
BigRemainder(A, m, i) ==
    IF i > Len(A) THEN 0 ELSE (BigRemainder(A, m, i + 1) * Base + A[i]) % m

\* The quotient of A by m < Base
BigQuotient(A, m) ==
    BigTrim([i \in 1..Len(A) |-> (BigRemainder(A, m, i + 1) * Base + A[i]) \div m])

\* b^n for b in {2, 5}
RECURSIVE BigPower(_, _)
BigPower(b, n) ==
    IF n = 0 THEN <<1>>
    ELSE BigTimes(BigPower(b, n - (IF n >= 5 THEN 5 ELSE 1)),
                  IF n >= 5 THEN b ^ 5 ELSE b, 0)

\* The quotient of A by 2^j
RECURSIVE BigHalve(_, _)
BigHalve(A, j) ==
    IF j = 0 THEN A
    ELSE BigHalve(BigQuotient(A, IF j >= 10 THEN 1024 ELSE 2),
                  j - (IF j >= 10 THEN 10 ELSE 1))

BigOdd(A) == A # <<>> /\ Head(A) % 2 = 1

Two52 == BigPower(2, 52)
Two53 == BigPower(2, 53)
Two105 == BigPower(2, 105)

\* A double greater than 0 is [m, e], the value m / 2^e, 2^52 <= m < 2^53.
Normal(m, e) ==
    IF m = Two53 THEN [m |-> Two52, e |-> e - 1] ELSE [m |-> m, e |-> e]

\* The double q / 2^e, or the next one above it.
Rounded(q, e, up) == Normal(IF up THEN BigPlus(q, <<1>>) ELSE q, e)

\* The number of binary digits of n.
RECURSIVE BitLength(_)
BitLength(n) == IF n = 0 THEN 0 ELSE 1 + BitLength(n \div 2)

\* Round to nearest, ties to even: the double nearest to (q + r / d) / 2^e.
Nearer(q, r, d, e) == Rounded(q, e, 2 * r > d \/ (2 * r = d /\ BigOdd(q)))

\* The double nearest to T / (Scale * 2^e), where T < Scale * 2^53.
RECURSIVE Widen(_, _)
Widen(T, e) ==
    IF BigCompare(T, BigTimes(Two52, Scale, 0)) >= 0
    THEN Nearer(BigQuotient(T, Scale), BigRemainder(T, Scale, 1), Scale, e)
    ELSE Widen(BigTimes(T, 2, 0), e + 1)

\* The double nearest to u / Scale, u > 0: what parseFloat returns for the
\* text of u / Scale.
NearestFrom(u, e) == Widen(BigProduct(BigOf(u), BigPower(2, e)), e)
Nearest(u) == NearestFrom(u, 52 - BitLength(u \div Scale))

\* The double nearest to P / 2^e, where q is the quotient of P by 2^j: round
\* to nearest, ties to even.
NearestProduct(P, q, j, e) ==
    Rounded(q, e - j,
            \/ BigCompare(BigTimes(P, 2, 0),
                          BigProduct(BigTimes(q, 2, 1), BigPower(2, j))) > 0
            \/ /\ BigOdd(q)
               /\ BigTimes(P, 2, 0) = BigProduct(BigTimes(q, 2, 1), BigPower(2, j)))

Narrow(P, j, e) == NearestProduct(P, BigHalve(P, j), j, e)
NarrowProduct(P, e) == Narrow(P, IF BigCompare(P, Two105) < 0 THEN 52 ELSE 53, e)

\* x * y for two doubles
DoubleTimes(x, y) == NarrowProduct(BigProduct(x.m, y.m), x.e + y.e)

\* The decimal digits of A, the lowest first, and back.
Digits(A) ==
    BigTrim([i \in 1..(4 * Len(A)) |->
                (A[((i - 1) \div 4) + 1] \div (10 ^ ((i - 1) % 4))) % 10])
Undigits(D) ==
    BigTrim([k \in 1..((Len(D) + 3) \div 4) |->
                BigAt(D, 4 * k - 3) + 10 * BigAt(D, 4 * k - 2)
                + 100 * BigAt(D, 4 * k - 1) + 1000 * BigAt(D, 4 * k)])

\* String(x) for a double x: the decimal with the fewest digits whose nearest
\* double is x, and of those the one nearest to x.  With V = 4m * 5^(e+2),
\* x is V / 10^(e+2), and the numbers whose nearest double is x lie from
\* V - below to V + above.  r is the record of V, its decimal digits and
\* these bounds.

\* V with all but its p highest decimal digits replaced by 0, and the next
\* number of p digits.
Down(r, p) ==
    Undigits([i \in 1..Len(r.digits) |-> IF i <= Len(r.digits) - p THEN 0 ELSE r.digits[i]])
Up(r, p) ==
    BigPlus(Down(r, p),
            Undigits([i \in 1..(Len(r.digits) - p + 1) |->
                         IF i <= Len(r.digits) - p THEN 0 ELSE 1]))

Within(r, c) == IF r.odd THEN c < 0 ELSE c <= 0
DownFits(r, down) == Within(r, BigCompare(r.V, BigPlus(down, r.below)))
UpFits(r, up) == Within(r, BigCompare(up, r.high))
Fits(r, p) == DownFits(r, Down(r, p)) \/ UpFits(r, Up(r, p))

NearerOf(r, p, down, up, downFits, upFits, c) ==
    IF downFits /\ upFits
    THEN IF c < 0 \/ (c = 0 /\ r.digits[Len(r.digits) - p + 1] % 2 = 0) THEN down ELSE up
    ELSE IF downFits THEN down ELSE up
Pick2(r, p, down, up) ==
    NearerOf(r, p, down, up, DownFits(r, down), UpFits(r, up),
             BigCompare(BigPlus(r.V, r.V), BigPlus(down, up)))
Pick(r, p) == Pick2(r, p, Down(r, p), Up(r, p))

Shortest(r) ==
    Pick(r, CHOOSE p \in 1..Len(r.digits) :
                Fits(r, p) /\ \A q \in 1..(p - 1) : ~Fits(r, q))

Bounds(V, five, odd, least) ==
    [V |-> V, digits |-> Digits(V), odd |-> odd,
     high |-> BigPlus(V, BigTimes(five, 2, 0)),
     below |-> IF least THEN five ELSE BigTimes(five, 2, 0)]
BoundsOf(x, five) ==
    Bounds(BigProduct(BigTimes(x.m, 4, 0), five), five, BigOdd(x.m), x.m = Two52)

\* The text of D / 10^point, D given by its decimal digits padded with zeros
\* to more than point digits, of which the `zeros` lowest are 0.
PaddedText(D, point, zeros) ==
    [i \in 1..(Len(D) - point) |-> DigitChars[D[Len(D) + 1 - i] + 1]]
    \o (IF zeros >= point THEN <<>>
        ELSE <<".">> \o [i \in 1..(point - zeros) |-> DigitChars[D[point + 1 - i] + 1]])
LowZeros(D) == CHOOSE k \in 0..Len(D) : (k = Len(D) \/ D[k + 1] # 0) /\ \A i \in 1..k : D[i] = 0
Padded(D, point) == PaddedText(D, point, LowZeros(D))
DecimalText(D, point) == Padded(D \o [i \in 1..(point + 1 - Len(D)) |-> 0], point)

\* String(x) for a double x = m / 2^e with e >= 0 and 10^-6 <= x
DoubleText(x) == DecimalText(Digits(Shortest(BoundsOf(x, BigPower(5, x.e + 2)))), x.e + 2)

\* The phases of the decimal calculations of SpecDecimal.
DecimalPhases == {"reset", "whole", "point", "tenth", "times", "factor", "product"}

\* Whether products of numbers that are not dyadic are computed.
Rounds == scn.phase \in DecimalPhases

\* The number that the double x is, x the product of a and b: a multiple of
\* 1 / Scale when x is the double nearest to one.
Product(a, b, x) ==
    IF (a.units * b.units) % Scale = 0 /\ Nearest(Abs(a.units * b.units) \div Scale) = x
    THEN Num((a.units * b.units) \div Scale)
    ELSE Double((IF (a.units < 0) # (b.units < 0) THEN <<"-">> ELSE <<>>) \o DoubleText(x))

\* a * b for two numbers whose exact product is at most MaxVal and at least
\* 10^-6, below which String uses the exponent notation.
Times(a, b) ==
    IF a.units = 0 \/ b.units = 0 THEN Num(0)
    ELSE IF \/ Abs(a.units) * Abs(b.units) > Limit * Scale
            \/ Abs(a.units) * Abs(b.units) <= (Scale * Scale - 1) \div 1000000
    THEN Out
    ELSE Product(a, b, DoubleTimes(Nearest(Abs(a.units)), Nearest(Abs(b.units))))

------------------------------------------------------------------------------
\* The calculation

\* a / b where the quotient is a multiple of 1 / Scale, else a value outside
\* the model.
Quotient(a, b) ==
    LET n == Abs(a) * Scale
        d == Abs(b)
    IN  IF n % d # 0 THEN Out
        ELSE Num(Sign(a) * Sign(b) * (n \div d))

\* The remainder of the flooring division: it has the sign of b.
RemainderFloored(a, b) == Num(Sign(b) * ((Sign(b) * a) % Abs(b)))

\* a % b of JavaScript: the remainder of the truncating division; it has the
\* sign of a.
Remainder(a, b) == Num(Sign(a) * (Abs(a) % Abs(b)))

\* The result of an arithmetic operator on two numbers: inside the domain in
\* which double arithmetic is exact, and the rounded product outside it.
Arith(a, b, operation) ==
    IF a.kind \in {"out", "double"} \/ b.kind \in {"out", "double"} THEN Out
    ELSE IF a.kind = "nan" \/ b.kind = "nan" THEN NaN
    ELSE IF ~Exact(a) \/ ~Exact(b)
    THEN IF operation = "*" /\ Rounds THEN Times(a, b) ELSE Out
    ELSE LET r == CASE operation = "+" -> Num(a.units + b.units)
                    [] operation = "-" -> Num(a.units - b.units)
                    [] operation = "*" ->
                         IF (a.units * b.units) % Scale = 0
                         THEN Num((a.units * b.units) \div Scale)
                         ELSE Out
                    [] operation = "/" -> Quotient(a.units, b.units)
                    [] operation = "%" -> Remainder(a.units, b.units)
         IN  IF Exact(r) THEN r ELSE Out

IsZero(x) == x.kind = "num" /\ x.units = 0

\* performCalculation with the operands of the subtraction exchanged.
performCalculationSwapped(firstValue, secondValue, operation) ==
    CASE operation \in {"+", "*"} ->
           [value |-> Arith(firstValue, secondValue, operation), alert |-> NoAlert]
      [] operation = "-" ->
           [value |-> Arith(secondValue, firstValue, "-"), alert |-> NoAlert]
      [] operation = "/" ->
           IF IsZero(secondValue)
           THEN [value |-> firstValue, alert |-> "Cannot divide by zero!"]
           ELSE [value |-> Arith(firstValue, secondValue, "/"), alert |-> NoAlert]
      [] operation = "%" ->
           IF IsZero(secondValue)
           THEN [value |-> firstValue, alert |-> "Cannot perform modulo with zero!"]
           ELSE [value |-> Arith(firstValue, secondValue, "%"), alert |-> NoAlert]
      [] OTHER -> [value |-> secondValue, alert |-> NoAlert]

\* performCalculation returning the divisor, not the first value, when the
\* divisor is zero.
performCalculationZero(firstValue, secondValue, operation) ==
    CASE operation \in {"+", "-", "*"} ->
           [value |-> Arith(firstValue, secondValue, operation), alert |-> NoAlert]
      [] operation = "/" ->
           IF IsZero(secondValue)
           THEN [value |-> secondValue, alert |-> "Cannot divide by zero!"]
           ELSE [value |-> Arith(firstValue, secondValue, "/"), alert |-> NoAlert]
      [] operation = "%" ->
           IF IsZero(secondValue)
           THEN [value |-> secondValue, alert |-> "Cannot perform modulo with zero!"]
           ELSE [value |-> Arith(firstValue, secondValue, "%"), alert |-> NoAlert]
      [] OTHER -> [value |-> secondValue, alert |-> NoAlert]

\* performCalculation: the value returned and the alert shown, if any.
performCalculation(firstValue, secondValue, operation) ==
    CASE operation \in {"+", "-", "*"} ->
           [value |-> Arith(firstValue, secondValue, operation), alert |-> NoAlert]
      [] operation = "/" ->
           IF IsZero(secondValue)
           THEN [value |-> firstValue, alert |-> "Cannot divide by zero!"]
           ELSE [value |-> Arith(firstValue, secondValue, "/"), alert |-> NoAlert]
      [] operation = "%" ->
           IF IsZero(secondValue)
           THEN [value |-> firstValue, alert |-> "Cannot perform modulo with zero!"]
           ELSE [value |-> Arith(firstValue, secondValue, "%"), alert |-> NoAlert]
      [] OTHER -> [value |-> secondValue, alert |-> NoAlert]

------------------------------------------------------------------------------
\* The handlers, as functions of the state

State == [mainDisplay |-> mainDisplay, operationDisplay |-> operationDisplay,
          previousValue |-> previousValue, currentOperation |-> currentOperation,
          shouldResetDisplay |-> shouldResetDisplay, alerted |-> alerted]

\* updateOperationDisplay testing the value for truth, not against null.
updateOperationDisplayTruthy(operation, value) ==
    IF operation # NoOperation /\ value # Null /\ ~IsZero(value) /\ value # NaN
    THEN String(value) \o <<" ">> \o <<operation>>
    ELSE <<>>

\* The text updateOperationDisplay(operation, value) leaves in operationDisplay.
updateOperationDisplay(operation, value) ==
    IF operation # NoOperation /\ value # Null
    THEN String(value) \o <<" ">> \o <<operation>>
    ELSE <<>>

Contains(t, c) == \E i \in 1..Len(t) : t[i] = c

\* handleNumberClick without the test for a display of "0".
handleNumberClickAppends(s, number) ==
    IF s.shouldResetDisplay
    THEN [s EXCEPT !.mainDisplay = <<number>>, !.shouldResetDisplay = FALSE,
                   !.alerted = NoAlert]
    ELSE [s EXCEPT !.mainDisplay = s.mainDisplay \o <<number>>, !.alerted = NoAlert]

\* handleNumberClick that leaves shouldResetDisplay as it was.
handleNumberClickKeepsFlag(s, number) ==
    IF s.shouldResetDisplay \/ s.mainDisplay = <<"0">>
    THEN [s EXCEPT !.mainDisplay = <<number>>, !.alerted = NoAlert]
    ELSE [s EXCEPT !.mainDisplay = s.mainDisplay \o <<number>>, !.alerted = NoAlert]

handleNumberClick(s, number) ==
    LET currentDisplay == s.mainDisplay
    IN  IF s.shouldResetDisplay
        THEN [s EXCEPT !.mainDisplay = <<number>>, !.shouldResetDisplay = FALSE,
                       !.alerted = NoAlert]
        ELSE IF currentDisplay = <<"0">> /\ number # "."
        THEN [s EXCEPT !.mainDisplay = <<number>>, !.alerted = NoAlert]
        ELSE [s EXCEPT !.mainDisplay = currentDisplay \o <<number>>,
                       !.alerted = NoAlert]

\* handleDecimal without the test for a decimal point in the display.
handleDecimalAppends(s) ==
    IF s.shouldResetDisplay
    THEN [s EXCEPT !.mainDisplay = <<"0", ".">>, !.shouldResetDisplay = FALSE,
                   !.alerted = NoAlert]
    ELSE [s EXCEPT !.mainDisplay = s.mainDisplay \o <<".">>, !.alerted = NoAlert]

handleDecimal(s) ==
    LET currentDisplay == s.mainDisplay
    IN  IF s.shouldResetDisplay
        THEN [s EXCEPT !.mainDisplay = <<"0", ".">>, !.shouldResetDisplay = FALSE,
                       !.alerted = NoAlert]
        ELSE IF ~Contains(currentDisplay, ".")
        THEN [s EXCEPT !.mainDisplay = currentDisplay \o <<".">>, !.alerted = NoAlert]
        ELSE [s EXCEPT !.alerted = NoAlert]

\* Whether a handler finds an operation pending whose right operand was typed.
Chains(s) ==
    s.previousValue # Null /\ s.currentOperation # NoOperation /\ ~s.shouldResetDisplay

\* handleOperation that never calculates the pending operation.
handleOperationNoChain(s, operation) ==
    LET currentValue == ParseFloat(s.mainDisplay)
    IN  [mainDisplay |-> s.mainDisplay,
         operationDisplay |-> updateOperationDisplay(operation, currentValue),
         previousValue |-> currentValue,
         currentOperation |-> operation,
         shouldResetDisplay |-> TRUE,
         alerted |-> NoAlert]

\* handleOperation without the test of shouldResetDisplay.
handleOperationAlwaysChains(s, operation) ==
    LET currentValue == ParseFloat(s.mainDisplay)
        calc == performCalculation(s.previousValue, currentValue, s.currentOperation)
        result == calc.value
    IN  IF s.previousValue # Null /\ s.currentOperation # NoOperation
        THEN [mainDisplay |-> String(result),
              operationDisplay |-> updateOperationDisplay(operation, result),
              previousValue |-> result,
              currentOperation |-> operation,
              shouldResetDisplay |-> TRUE,
              alerted |-> calc.alert]
        ELSE [mainDisplay |-> s.mainDisplay,
              operationDisplay |-> updateOperationDisplay(operation, currentValue),
              previousValue |-> currentValue,
              currentOperation |-> operation,
              shouldResetDisplay |-> TRUE,
              alerted |-> NoAlert]

handleOperation(s, operation) ==
    LET currentValue == ParseFloat(s.mainDisplay)
        calc == performCalculation(s.previousValue, currentValue, s.currentOperation)
        result == calc.value
    IN  IF Chains(s)
        THEN [mainDisplay |-> String(result),
              operationDisplay |-> updateOperationDisplay(operation, result),
              previousValue |-> result,
              currentOperation |-> operation,
              shouldResetDisplay |-> TRUE,
              alerted |-> calc.alert]
        ELSE [mainDisplay |-> s.mainDisplay,
              operationDisplay |-> updateOperationDisplay(operation, currentValue),
              previousValue |-> currentValue,
              currentOperation |-> operation,
              shouldResetDisplay |-> TRUE,
              alerted |-> NoAlert]

\* handleModulo that never calculates the pending operation.
handleModuloNoChain(s) ==
    LET currentValue == ParseFloat(s.mainDisplay)
    IN  [mainDisplay |-> s.mainDisplay,
         operationDisplay |-> updateOperationDisplay("%", currentValue),
         previousValue |-> currentValue,
         currentOperation |-> "%",
         shouldResetDisplay |-> TRUE,
         alerted |-> NoAlert]

handleModulo(s) ==
    LET currentValue == ParseFloat(s.mainDisplay)
        calc == performCalculation(s.previousValue, currentValue, s.currentOperation)
        result == calc.value
    IN  IF Chains(s)
        THEN [mainDisplay |-> String(result),
              operationDisplay |-> updateOperationDisplay("%", result),
              previousValue |-> result,
              currentOperation |-> "%",
              shouldResetDisplay |-> TRUE,
              alerted |-> calc.alert]
        ELSE [mainDisplay |-> s.mainDisplay,
              operationDisplay |-> updateOperationDisplay("%", currentValue),
              previousValue |-> currentValue,
              currentOperation |-> "%",
              shouldResetDisplay |-> TRUE,
              alerted |-> NoAlert]

\* currentValue + currentValue
SquareDoubles(currentValue) == Arith(currentValue, currentValue, "+")

\* currentValue * currentValue
Square(currentValue) == Arith(currentValue, currentValue, "*")

\* handleSquare that does not set shouldResetDisplay.
handleSquareKeepsFlag(s) ==
    LET currentValue == ParseFloat(s.mainDisplay)
        result == Square(currentValue)
    IN  [s EXCEPT !.mainDisplay = String(result), !.alerted = NoAlert]

handleSquare(s) ==
    LET currentValue == ParseFloat(s.mainDisplay)
        result == Square(currentValue)
    IN  [s EXCEPT !.mainDisplay = String(result), !.shouldResetDisplay = TRUE,
                  !.alerted = NoAlert]

\* handleEquals that leaves currentOperation set.
handleEqualsKeepsOperation(s) ==
    LET currentValue == ParseFloat(s.mainDisplay)
        calc == performCalculation(s.previousValue, currentValue, s.currentOperation)
        result == calc.value
    IN  IF s.previousValue # Null /\ s.currentOperation # NoOperation
        THEN [mainDisplay |-> String(result),
              operationDisplay |-> updateOperationDisplay(NoOperation, Null),
              previousValue |-> Null,
              currentOperation |-> s.currentOperation,
              shouldResetDisplay |-> TRUE,
              alerted |-> calc.alert]
        ELSE [s EXCEPT !.alerted = NoAlert]

\* handleEquals without the test for a pending operation.
handleEqualsUnguarded(s) ==
    LET currentValue == ParseFloat(s.mainDisplay)
        calc == performCalculation(s.previousValue, currentValue, s.currentOperation)
        result == calc.value
    IN  [mainDisplay |-> String(result),
         operationDisplay |-> updateOperationDisplay(NoOperation, Null),
         previousValue |-> Null,
         currentOperation |-> NoOperation,
         shouldResetDisplay |-> TRUE,
         alerted |-> calc.alert]

handleEquals(s) ==
    LET currentValue == ParseFloat(s.mainDisplay)
        calc == performCalculation(s.previousValue, currentValue, s.currentOperation)
        result == calc.value
    IN  IF s.previousValue # Null /\ s.currentOperation # NoOperation
        THEN [mainDisplay |-> String(result),
              operationDisplay |-> updateOperationDisplay(NoOperation, Null),
              previousValue |-> Null,
              currentOperation |-> NoOperation,
              shouldResetDisplay |-> TRUE,
              alerted |-> calc.alert]
        ELSE [s EXCEPT !.alerted = NoAlert]

\* handleClear that does not reset shouldResetDisplay.
handleClearKeepsFlag(s) ==
    [mainDisplay |-> <<"0">>,
     operationDisplay |-> updateOperationDisplay(NoOperation, Null),
     previousValue |-> Null,
     currentOperation |-> NoOperation,
     shouldResetDisplay |-> s.shouldResetDisplay,
     alerted |-> NoAlert]

handleClear(s) ==
    [mainDisplay |-> <<"0">>,
     operationDisplay |-> updateOperationDisplay(NoOperation, Null),
     previousValue |-> Null,
     currentOperation |-> NoOperation,
     shouldResetDisplay |-> TRUE,
     alerted |-> NoAlert]

\* handleBackspace without the test of the length.
handleBackspaceSlices(s) ==
    [s EXCEPT !.mainDisplay = SubSeq(s.mainDisplay, 1, Len(s.mainDisplay) - 1),
              !.alerted = NoAlert]

\* handleBackspace that leaves shouldResetDisplay as it was.
handleBackspaceKeepsFlag(s) ==
    IF Len(s.mainDisplay) > 1
    THEN [s EXCEPT !.mainDisplay = SubSeq(s.mainDisplay, 1, Len(s.mainDisplay) - 1),
                   !.alerted = NoAlert]
    ELSE [s EXCEPT !.mainDisplay = <<"0">>, !.alerted = NoAlert]

\* handleBackspace that drops the pending operation with the last character.
handleBackspaceForgets(s) ==
    IF Len(s.mainDisplay) > 1
    THEN [s EXCEPT !.mainDisplay = SubSeq(s.mainDisplay, 1, Len(s.mainDisplay) - 1),
                   !.alerted = NoAlert]
    ELSE [s EXCEPT !.mainDisplay = <<"0">>, !.shouldResetDisplay = TRUE,
                   !.operationDisplay = <<>>, !.previousValue = Null,
                   !.currentOperation = NoOperation, !.alerted = NoAlert]

handleBackspace(s) ==
    LET currentDisplay == s.mainDisplay
    IN  IF Len(currentDisplay) > 1
        THEN [s EXCEPT !.mainDisplay = SubSeq(currentDisplay, 1, Len(currentDisplay) - 1),
                       !.alerted = NoAlert]
        ELSE [s EXCEPT !.mainDisplay = <<"0">>, !.shouldResetDisplay = TRUE,
                       !.alerted = NoAlert]

------------------------------------------------------------------------------
\* The state machine

\* No value outside the modelled number domain was computed or displayed.
InModel(s) == ~Contains(s.mainDisplay, "#") /\ s.previousValue.kind # "out"

\* A handler returned leaving the state s and the input dispatcher is idle.
Becomes(s, op) ==
    /\ InModel(s)
    /\ mainDisplay' = s.mainDisplay
    /\ operationDisplay' = s.operationDisplay
    /\ previousValue' = s.previousValue
    /\ currentOperation' = s.currentOperation
    /\ shouldResetDisplay' = s.shouldResetDisplay
    /\ alerted' = s.alerted
    /\ lastOp' = op

Free == [phase |-> "free", a |-> 0, b |-> 0, op |-> NoOperation]

\* The state when script.js has loaded: the variables as declared, and in the
\* displays what handleClear, which "resets the calculator to its initial
\* state", puts there.
Init ==
    /\ mainDisplay = <<"0">>
    /\ operationDisplay = <<>>
    /\ previousValue = Null
    /\ currentOperation = NoOperation
    /\ shouldResetDisplay = TRUE
    /\ alerted = NoAlert
    /\ lastOp = "init"
    /\ scn = Free

\* A text of at most MaxLen characters that denotes at most MaxVal.
Typeable(t) ==
    /\ Len(t) <= MaxLen
    /\ ParseFloat(t).kind = "num" /\ ParseFloat(t).units <= Limit

Digit ==
    \E d \in DigitSet :
        /\ Typeable(handleNumberClick(State, d).mainDisplay)
        /\ Becomes(handleNumberClick(State, d), "digit")
        /\ UNCHANGED scn

Decimal ==
    /\ Len(handleDecimal(State).mainDisplay) <= MaxLen
    /\ Becomes(handleDecimal(State), "decimal")
    /\ UNCHANGED scn

\* lastOp tells a press of an operator key that directly follows another one
\* ("operationAgain") from a first press ("operation").
ByOperation(l) == l \in {"operation", "operationAgain"}

Operation ==
    \E op \in OperatorSet :
        /\ Becomes(handleOperation(State, op),
                   IF ByOperation(lastOp) THEN "operationAgain" ELSE "operation")
        /\ UNCHANGED scn

Modulo ==
    /\ Becomes(handleModulo(State), "modulo")
    /\ UNCHANGED scn

SquareKey ==
    /\ Becomes(handleSquare(State), "square")
    /\ UNCHANGED scn

Equals ==
    /\ Becomes(handleEquals(State), "equals")
    /\ UNCHANGED scn

Clear ==
    /\ Becomes(handleClear(State), "clear")
    /\ UNCHANGED scn

Backspace ==
    /\ Becomes(handleBackspace(State), "backspace")
    /\ UNCHANGED scn

Next ==
    \/ Digit
    \/ Decimal
    \/ Operation
    \/ Modulo
    \/ SquareKey
    \/ Equals
    \/ Clear
    \/ Backspace

Spec == Init /\ [][Next]_vars

------------------------------------------------------------------------------
\* Typing only: the digit and decimal keys, every digit of the keypad.

EntryDigit ==
    \E d \in AllDigits :
        /\ Len(handleNumberClick(State, d).mainDisplay) <= MaxLen
        /\ Becomes(handleNumberClick(State, d), "digit")
        /\ UNCHANGED scn

NextEntry ==
    \/ EntryDigit
    \/ Decimal

SpecEntry == Init /\ [][NextEntry]_vars

------------------------------------------------------------------------------
\* One calculation after another: clear, the digits of a, an operator key or
\* the modulo key, the digits of b, equals.  scn records the keys pressed: the
\* phase, the two numbers typed and the operator.

InitCalc ==
    /\ mainDisplay = <<"0">>
    /\ operationDisplay = <<>>
    /\ previousValue = Null
    /\ currentOperation = NoOperation
    /\ shouldResetDisplay = TRUE
    /\ alerted = NoAlert
    /\ lastOp = "init"
    /\ scn = [phase |-> "start", a |-> 0, b |-> 0, op |-> NoOperation]

CalcClear ==
    /\ scn.phase \in {"start", "done"}
    /\ Becomes(handleClear(State), "clear")
    /\ scn' = [phase |-> "clear", a |-> 0, b |-> 0, op |-> NoOperation]

CalcDigitA ==
    \E d \in AllDigits :
        /\ scn.phase \in {"clear", "a"}
        /\ 10 * scn.a + DigitVal(d) <= MaxVal
        /\ Becomes(handleNumberClick(State, d), "digit")
        /\ scn' = [scn EXCEPT !.phase = "a", !.a = 10 * scn.a + DigitVal(d)]

CalcOperator ==
    \E op \in OperatorSet \cup {"%"} :
        /\ scn.phase = "a"
        /\ Becomes(IF op = "%" THEN handleModulo(State) ELSE handleOperation(State, op),
                   IF op = "%" THEN "modulo" ELSE "operation")
        /\ scn' = [scn EXCEPT !.phase = "op", !.op = op]

CalcDigitB ==
    \E d \in AllDigits :
        /\ scn.phase \in {"op", "b"}
        /\ 10 * scn.b + DigitVal(d) <= MaxVal
        /\ Becomes(handleNumberClick(State, d), "digit")
        /\ scn' = [scn EXCEPT !.phase = "b", !.b = 10 * scn.b + DigitVal(d)]

CalcEquals ==
    /\ scn.phase = "b"
    /\ Becomes(handleEquals(State), "equals")
    /\ scn' = [scn EXCEPT !.phase = "done"]

NextCalc ==
    \/ CalcClear
    \/ CalcDigitA
    \/ CalcOperator
    \/ CalcDigitB
    \/ CalcEquals

SpecCalc == InitCalc /\ [][NextCalc]_vars

------------------------------------------------------------------------------
\* Chained calculations: clear, the digits of a, an operator or modulo, the
\* digits of b, the square key or not, and then either equals, or a second
\* operator or modulo, the digits of c and equals.  scn records the phase, the
\* numbers typed, the two operators and whether b was squared.

ChainDigits == {"0", "2", "3", "5", "7"}

ChainStart ==
    [phase |-> "start", a |-> 0, b |-> 0, c |-> 0, op1 |-> NoOperation,
     op2 |-> NoOperation, squared |-> FALSE]

InitChain ==
    /\ mainDisplay = <<"0">>
    /\ operationDisplay = <<>>
    /\ previousValue = Null
    /\ currentOperation = NoOperation
    /\ shouldResetDisplay = TRUE
    /\ alerted = NoAlert
    /\ lastOp = "init"
    /\ scn = ChainStart

ChainClear ==
    /\ scn.phase \in {"start", "done", "done2"}
    /\ Becomes(handleClear(State), "clear")
    /\ scn' = [ChainStart EXCEPT !.phase = "clear"]

ChainDigitA ==
    \E d \in ChainDigits :
        /\ scn.phase \in {"clear", "a"}
        /\ 10 * scn.a + DigitVal(d) <= MaxVal
        /\ Becomes(handleNumberClick(State, d), "digit")
        /\ scn' = [scn EXCEPT !.phase = "a", !.a = 10 * scn.a + DigitVal(d)]

ChainOperator1 ==
    \E op \in OperatorSet \cup {"%"} :
        /\ scn.phase = "a"
        /\ Becomes(IF op = "%" THEN handleModulo(State) ELSE handleOperation(State, op),
                   IF op = "%" THEN "modulo" ELSE "operation")
        /\ scn' = [scn EXCEPT !.phase = "op1", !.op1 = op]

ChainDigitB ==
    \E d \in ChainDigits :
        /\ scn.phase \in {"op1", "b"}
        /\ 10 * scn.b + DigitVal(d) <= MaxVal
        /\ Becomes(handleNumberClick(State, d), "digit")
        /\ scn' = [scn EXCEPT !.phase = "b", !.b = 10 * scn.b + DigitVal(d)]

ChainSquare ==
    /\ scn.phase = "b"
    /\ Becomes(handleSquare(State), "square")
    /\ scn' = [scn EXCEPT !.phase = "sq", !.squared = TRUE]

ChainEquals ==
    /\ scn.phase \in {"b", "sq"}
    /\ Becomes(handleEquals(State), "equals")
    /\ scn' = [scn EXCEPT !.phase = "done"]

ChainOperator2 ==
    \E op \in OperatorSet \cup {"%"} :
        /\ scn.phase \in {"b", "sq"}
        /\ Becomes(IF op = "%" THEN handleModulo(State) ELSE handleOperation(State, op),
                   IF op = "%" THEN "modulo" ELSE "operation")
        /\ scn' = [scn EXCEPT !.phase = "op2", !.op2 = op]

ChainDigitC ==
    \E d \in ChainDigits :
        /\ scn.phase \in {"op2", "c"}
        /\ 10 * scn.c + DigitVal(d) <= MaxVal
        /\ Becomes(handleNumberClick(State, d), "digit")
        /\ scn' = [scn EXCEPT !.phase = "c", !.c = 10 * scn.c + DigitVal(d)]

ChainEquals2 ==
    /\ scn.phase = "c"
    /\ Becomes(handleEquals(State), "equals")
    /\ scn' = [scn EXCEPT !.phase = "done2"]

NextChain ==
    \/ ChainClear
    \/ ChainDigitA
    \/ ChainOperator1
    \/ ChainDigitB
    \/ ChainSquare
    \/ ChainEquals
    \/ ChainOperator2
    \/ ChainDigitC
    \/ ChainEquals2

SpecChain == InitChain /\ [][NextChain]_vars

------------------------------------------------------------------------------
\* Decimal calculations: clear, the digits of n, the decimal key, a digit d,
\* the multiplication key, a digit k, equals.  scn records the phase and the
\* keys pressed: n.d * k.

DecimalStart == [phase |-> "start", n |-> 0, d |-> 0, k |-> 0]

InitDecimal ==
    /\ mainDisplay = <<"0">>
    /\ operationDisplay = <<>>
    /\ previousValue = Null
    /\ currentOperation = NoOperation
    /\ shouldResetDisplay = TRUE
    /\ alerted = NoAlert
    /\ lastOp = "init"
    /\ scn = DecimalStart

DecimalClear ==
    /\ scn.phase \in {"start", "product"}
    /\ Becomes(handleClear(State), "clear")
    /\ scn' = [DecimalStart EXCEPT !.phase = "reset"]

DecimalWhole ==
    \E c \in AllDigits :
        /\ scn.phase \in {"reset", "whole"}
        /\ 10 * scn.n + DigitVal(c) <= MaxVal
        /\ Becomes(handleNumberClick(State, c), "digit")
        /\ scn' = [scn EXCEPT !.phase = "whole", !.n = 10 * scn.n + DigitVal(c)]

DecimalPoint ==
    /\ scn.phase = "whole"
    /\ Becomes(handleDecimal(State), "decimal")
    /\ scn' = [scn EXCEPT !.phase = "point"]

DecimalTenth ==
    \E c \in AllDigits :
        /\ scn.phase = "point"
        /\ Becomes(handleNumberClick(State, c), "digit")
        /\ scn' = [scn EXCEPT !.phase = "tenth", !.d = DigitVal(c)]

DecimalTimes ==
    /\ scn.phase = "tenth"
    /\ Becomes(handleOperation(State, "*"), "operation")
    /\ scn' = [scn EXCEPT !.phase = "times"]

DecimalFactor ==
    \E c \in AllDigits :
        /\ scn.phase = "times"
        /\ Becomes(handleNumberClick(State, c), "digit")
        /\ scn' = [scn EXCEPT !.phase = "factor", !.k = DigitVal(c)]

DecimalEquals ==
    /\ scn.phase = "factor"
    /\ Becomes(handleEquals(State), "equals")
    /\ scn' = [scn EXCEPT !.phase = "product"]

NextDecimal ==
    \/ DecimalClear
    \/ DecimalWhole
    \/ DecimalPoint
    \/ DecimalTenth
    \/ DecimalTimes
    \/ DecimalFactor
    \/ DecimalEquals

SpecDecimal == InitDecimal /\ [][NextDecimal]_vars

------------------------------------------------------------------------------
\* Properties

\* The Display Text grammar of the data model: 0 | [1-9][0-9]*, optionally
\* followed by a point and digits.
DisplayGrammar(t) ==
    LET ip == DigitRun(t)
        rest == Drop(t, Len(ip))
    IN  /\ ip # <<>>
        /\ Len(ip) > 1 => Head(ip) # "0"
        /\ rest = <<>> \/ (Head(rest) = "." /\ DigitRun(Tail(rest)) = Tail(rest))
        /\ Cardinality({i \in 1..Len(t) : t[i] = "."}) <= 1

\* The state handleClear leaves and the page starts in.
Cleared ==
    [mainDisplay |-> <<"0">>, operationDisplay |-> <<>>, previousValue |-> Null,
     currentOperation |-> NoOperation, shouldResetDisplay |-> TRUE,
     alerted |-> NoAlert]

\* C1: in every reachable state previousValue (Pending Operand) and
\* currentOperation (Pending Operator) are both present or both absent.
C1_PendingTogether ==
    (previousValue = Null) <=> (currentOperation = NoOperation)

\* An equals that applied a pending operation has just cleared both.
C1_Witness ==
    /\ lastOp = "equals"
    /\ shouldResetDisplay
    /\ mainDisplay = <<"7">>
    /\ previousValue = Null
    /\ currentOperation = NoOperation

\* C2: after any sequence of digit and decimal-point keys from the cleared
\* state the display has at most one point and no leading zero, unless its
\* integer part is exactly "0".
C2_EntryGrammar == DisplayGrammar(mainDisplay)

\* A digit typed on a display of "0" replaced it, and a second point was
\* refused.
C2_Witness ==
    /\ lastOp = "decimal"
    /\ mainDisplay = <<"7", ".", "0">>

\* C3 as stated: in every reachable state, results of calculations, squares
\* and backspaces included, the display matches the Display Text grammar.
C3_DisplayGrammarAlways == DisplayGrammar(mainDisplay)

\* C3 as amended: the display is never empty, and whenever shouldResetDisplay
\* is false (the text was typed with the digit and decimal keys) it matches
\* the Display Text grammar, so that its numeric value is defined.
C3_TypedDisplayGrammar ==
    /\ mainDisplay # <<>>
    /\ ~shouldResetDisplay =>
           DisplayGrammar(mainDisplay) /\ ParseFloat(mainDisplay).kind = "num"

\* A right operand, typed while an operation is pending and shortened by
\* backspace to a text that ends in the point.
C3_Witness ==
    /\ lastOp = "backspace"
    /\ ~shouldResetDisplay
    /\ previousValue # Null
    /\ mainDisplay = <<"2", ".">>

\* C4: handleClear yields the initial state from every reachable state, and
\* applied twice it yields what it yields applied once.
C4_ClearResets ==
    /\ handleClear(State) = Cleared
    /\ handleClear(handleClear(State)) = handleClear(State)
    /\ lastOp = "clear" => State = Cleared

\* The clear key was pressed.
C4_Witness ==
    /\ lastOp = "clear"
    /\ State = Cleared

\* The decimal text of an integer.
SignedText(n) == (IF n < 0 THEN <<"-">> ELSE <<>>) \o IntText(Abs(n))

\* apply(a, b, op) on integers, where the result is an integer.
IntApply(a, b, op) ==
    CASE op = "+" -> a + b
      [] op = "-" -> a - b
      [] op = "*" -> a * b
      [] op = "/" -> a \div b
      [] op = "%" -> a % b

\* The calculations C5 is about: + - * on any two numbers typed, / and % with
\* a divisor other than 0 and an integer result.
C5_Covered ==
    \/ scn.op \in {"+", "-", "*"}
    \/ scn.op = "%" /\ scn.b # 0
    \/ scn.op = "/" /\ scn.b # 0 /\ scn.a % scn.b = 0

\* C5: clear, the digits of a, an operator (or modulo), the digits of b,
\* equals leaves the decimal text of apply(a, b, op) in the display, the
\* indicator empty, no operation pending and shouldResetDisplay true.
C5_CalculationResult ==
    (scn.phase = "done" /\ C5_Covered) =>
        /\ mainDisplay = SignedText(IntApply(scn.a, scn.b, scn.op))
        /\ operationDisplay = <<>>
        /\ previousValue = Null
        /\ currentOperation = NoOperation
        /\ shouldResetDisplay

\* 5 + 3 = shows 8.
C5_Witness ==
    /\ scn = [phase |-> "done", a |-> 5, b |-> 3, op |-> "+"]
    /\ mainDisplay = <<"8">>
    /\ operationDisplay = <<>>

\* A pending / or % whose right-hand value, the number displayed, is 0.
ZeroDivides ==
    /\ previousValue # Null
    /\ currentOperation \in {"/", "%"}
    /\ IsZero(ParseFloat(mainDisplay))

\* C6: when a pending / or % is applied to a right-hand value of 0, by
\* equals, an operator key or modulo, an alert is shown, the result displayed
\* is the pending operand unchanged, and the pending operator and
\* shouldResetDisplay change as they do when the calculation succeeds.
C6_ZeroDivisionAbsorbed ==
    [][(/\ ZeroDivides
        /\ \/ lastOp' = "equals"
           \/ (ByOperation(lastOp') \/ lastOp' = "modulo") /\ ~shouldResetDisplay)
       =>
       (/\ alerted' = (IF currentOperation = "/" THEN "Cannot divide by zero!"
                       ELSE "Cannot perform modulo with zero!")
        /\ mainDisplay' = String(previousValue)
        /\ shouldResetDisplay'
        /\ lastOp' = "equals" =>
               /\ previousValue' = Null
               /\ currentOperation' = NoOperation
               /\ operationDisplay' = <<>>
        /\ lastOp' # "equals" =>
               /\ previousValue' = previousValue
               /\ currentOperation' \in OperatorSet \cup {"%"}
               /\ lastOp' = "modulo" => currentOperation' = "%"
               /\ operationDisplay' =
                      String(previousValue) \o <<" ", currentOperation'>>)]_vars

\* 5 / 0 = leaves 5 in the display and shows the alert.
C6_Witness ==
    /\ lastOp = "equals"
    /\ alerted = "Cannot divide by zero!"
    /\ mainDisplay = <<"5">>
    /\ previousValue = Null

\* C7: an operator key pressed directly after an operator key changes only
\* currentOperation and the operator in the indicator: previousValue, the
\* display and shouldResetDisplay stay as they were and nothing is calculated.
C7_SecondOperatorOnly ==
    [][(ByOperation(lastOp) /\ lastOp' = "operationAgain") =>
           /\ previousValue' = previousValue
           /\ mainDisplay' = mainDisplay
           /\ shouldResetDisplay' = shouldResetDisplay
           /\ alerted' = NoAlert
           /\ currentOperation' \in OperatorSet
           /\ operationDisplay' =
                  String(previousValue) \o <<" ", currentOperation'>>]_vars

\* 5 + * : the second operator replaced the first, 5 is still pending.
C7_Witness ==
    /\ lastOp = "operationAgain"
    /\ mainDisplay = <<"5">>
    /\ previousValue = Num(5 * Scale)
    /\ currentOperation = "*"
    /\ operationDisplay = <<"5", " ", "*">>

\* current * current for the number displayed.
SquareOf(x) ==
    IF x.kind = "num" THEN Num((x.units * x.units) \div Scale) ELSE NaN

\* C8: handleSquare sets the display to the text of current * current, sets
\* shouldResetDisplay, and leaves previousValue, currentOperation and the
\* indicator as they were.
C8_SquareFrame ==
    [][lastOp' = "square" =>
           /\ mainDisplay' = String(SquareOf(ParseFloat(mainDisplay)))
           /\ mainDisplay = <<"5">> => mainDisplay' = <<"2", "5">>
           /\ shouldResetDisplay'
           /\ previousValue' = previousValue
           /\ currentOperation' = currentOperation
           /\ operationDisplay' = operationDisplay]_vars

\* 2 + 5 square: the display shows 25 and 2 + is still pending.
C8_Witness ==
    /\ lastOp = "square"
    /\ mainDisplay = <<"2", "5">>
    /\ shouldResetDisplay
    /\ previousValue = Num(2 * Scale)
    /\ currentOperation = "+"

\* C9: from every reachable state handleModulo and handleOperation('%') yield
\* the same state and the same alert.
C9_ModuloIsOperation ==
    /\ handleModulo(State) = handleOperation(State, "%")
    /\ lastOp = "modulo" => currentOperation = "%"

\* The modulo key applied a pending division by zero: it chained and alerted.
C9_Witness ==
    /\ lastOp = "modulo"
    /\ alerted = "Cannot divide by zero!"
    /\ currentOperation = "%"
    /\ previousValue = Num(5 * Scale)

\* C10: handleEquals changes nothing when previousValue or currentOperation is
\* absent.
C10_EqualsNoOp ==
    [][(lastOp' = "equals"
        /\ (previousValue = Null \/ currentOperation = NoOperation)) =>
           /\ mainDisplay' = mainDisplay
           /\ previousValue' = previousValue
           /\ currentOperation' = currentOperation
           /\ shouldResetDisplay' = shouldResetDisplay
           /\ operationDisplay' = operationDisplay]_vars

\* Equals pressed on a number just typed, with nothing pending.
C10_Witness ==
    /\ lastOp = "equals"
    /\ ~shouldResetDisplay
    /\ previousValue = Null
    /\ mainDisplay = <<"2", ".", "5">>

\* C11: in every reachable state the indicator is empty exactly when no
\* operation is pending, and otherwise reads "{previousValue}
\* {currentOperation}" for their current values, a previousValue of 0 included.
C11_IndicatorShowsPending ==
    /\ (operationDisplay = <<>>) <=> (currentOperation = NoOperation)
    /\ currentOperation # NoOperation =>
           operationDisplay = String(previousValue) \o <<" ", currentOperation>>

\* 0 + is pending and shown while the right operand is being typed.
C11_Witness ==
    /\ previousValue = Num(0)
    /\ currentOperation = "+"
    /\ operationDisplay = <<"0", " ", "+">>
    /\ ~shouldResetDisplay
    /\ lastOp = "digit"

\* The quotient of integers rounded toward zero, and the remainder it leaves.
TruncQuot(x, y) == Sign(x) * Sign(y) * (Abs(x) \div Abs(y))
TruncRem(x, y) == x - y * TruncQuot(x, y)

\* apply(x, y, op) of the specification on integers: a division or modulo by
\* zero returns x.
ChainApply(x, y, op) ==
    CASE op = "+" -> x + y
      [] op = "-" -> x - y
      [] op = "*" -> x * y
      [] op = "/" -> IF y = 0 THEN x ELSE TruncQuot(x, y)
      [] op = "%" -> IF y = 0 THEN x ELSE TruncRem(x, y)

\* apply(x, y, op) is an integer.
ChainCovered(x, y, op) == op = "/" /\ y # 0 => TruncRem(x, y) = 0

\* C12: for integers a and b other than 0 a pending % yields the remainder
\* of the truncating division, which has the sign of a: a left operand that a
\* subtraction made negative included.
C12_TruncatingRemainder ==
    /\ (scn.phase = "done" /\ ~scn.squared /\ scn.op1 = "%" /\ scn.b # 0) =>
           mainDisplay = SignedText(TruncRem(scn.a, scn.b))
    /\ (scn.phase = "done2" /\ ~scn.squared /\ scn.op1 \in {"+", "-", "*"}
            /\ scn.op2 = "%" /\ scn.c # 0) =>
           LET left == ChainApply(scn.a, scn.b, scn.op1)
               r == TruncRem(left, scn.c)
           IN  /\ mainDisplay = SignedText(r)
               /\ r # 0 => (r < 0 <=> left < 0)
               /\ Abs(r) < scn.c

\* 0 - 7 % 3 = shows -1.
C12_Witness ==
    /\ scn = [phase |-> "done2", a |-> 0, b |-> 7, c |-> 3, op1 |-> "-",
              op2 |-> "%", squared |-> FALSE]
    /\ mainDisplay = <<"-", "1">>

\* C13: handleBackspace never leaves the display empty or a lone "-".
C13_BackspaceNeverBareMinus ==
    lastOp = "backspace" => mainDisplay # <<>> /\ mainDisplay # <<"-">>

\* C14: clear, a, an operator among + - *, b, square, equals leaves
\* apply(a, b * b, op) in the display.
C14_SquareBindsTighter ==
    (scn.phase = "done" /\ scn.squared /\ scn.op1 \in {"+", "-", "*"}) =>
        mainDisplay = SignedText(ChainApply(scn.a, scn.b * scn.b, scn.op1))

\* 5 + 3 square = shows 14.
C14_Witness ==
    /\ scn = [phase |-> "done", a |-> 5, b |-> 3, c |-> 0, op1 |-> "+",
              op2 |-> NoOperation, squared |-> TRUE]
    /\ mainDisplay = <<"1", "4">>

\* The text of tenths / 10 without a trailing ".0".
TenthsText(tenths) ==
    IntText(tenths \div 10)
    \o (IF tenths % 10 = 0 THEN <<>> ELSE <<".", DigitChars[(tenths % 10) + 1]>>)

\* C15: clear, the digits of n, the decimal key, a digit d, the
\* multiplication key, a digit k, equals leaves the exact product of n.d and
\* k in the display, without a trailing ".0": 10.5 * 2 shows "21".
C15_DecimalProductExact ==
    scn.phase = "product" =>
        mainDisplay = TenthsText((10 * scn.n + scn.d) * scn.k)

\* C16: an operator or modulo pressed while (a, op1) is pending and the right
\* operand b was typed leaves apply(a, b, op1) in the display and in
\* previousValue, the new operator in currentOperation and shouldResetDisplay
\* true; a op1 b op2 c = shows apply(apply(a, b, op1), c, op2).
C16_LeftToRight ==
    LET left == ChainApply(scn.a, scn.b, scn.op1)
    IN  /\ (scn.phase = "op2" /\ ~scn.squared /\ ChainCovered(scn.a, scn.b, scn.op1)) =>
               /\ mainDisplay = SignedText(left)
               /\ previousValue = Num(left * Scale)
               /\ currentOperation = scn.op2
               /\ shouldResetDisplay
        /\ (scn.phase = "done2" /\ ~scn.squared /\ ChainCovered(scn.a, scn.b, scn.op1)
                /\ ChainCovered(left, scn.c, scn.op2)) =>
               mainDisplay = SignedText(ChainApply(left, scn.c, scn.op2))

\* 2 + 3 * 5 = shows 25.
C16_Witness ==
    /\ scn = [phase |-> "done2", a |-> 2, b |-> 3, c |-> 5, op1 |-> "+",
              op2 |-> "*", squared |-> FALSE]
    /\ mainDisplay = <<"2", "5">>

\* C17: while an operation is pending, shouldResetDisplay is false exactly
\* when a right operand was typed since the last operator, modulo or equals.
C17_FlagFalseIffOperandTyped ==
    currentOperation # NoOperation =>
        (~shouldResetDisplay <=> scn.phase \in {"b", "sq", "c"})

\* The display after the digit keys of t were pressed in turn from the state s.
RECURSIVE Typed(_, _)
Typed(s, t) == IF t = <<>> THEN s ELSE Typed(handleNumberClick(s, Head(t)), Tail(t))

\* C18: a digit key d pressed while shouldResetDisplay is true leaves exactly
\* d in the display and the flag false; pressed while it is false it replaces
\* a display of "0" by d and appends d to any other display, the flag staying
\* false.  The flag is true after an operator, modulo, square, clear and after
\* an equals that calculated, so the first digit after them starts a fresh
\* number.  The digits 7, 3, 1 typed after clear show "731".
C18_DigitEntry ==
    [][/\ lastOp' = "digit" =>
              \E d \in AllDigits :
                  /\ ~shouldResetDisplay'
                  /\ mainDisplay' = IF shouldResetDisplay \/ mainDisplay = <<"0">>
                                    THEN <<d>>
                                    ELSE mainDisplay \o <<d>>
       /\ lastOp' \in {"operation", "operationAgain", "modulo", "square", "clear"} =>
              shouldResetDisplay'
       /\ (lastOp' = "equals" /\ previousValue # Null /\ currentOperation # NoOperation) =>
              shouldResetDisplay'
       /\ Typed(Cleared, <<"7", "3", "1">>).mainDisplay = <<"7", "3", "1">>]_vars

\* Digits 2 and 5 typed as the right operand of a pending operation.
C18_Witness ==
    /\ lastOp = "digit" /\ mainDisplay = <<"2", "5">>
    /\ currentOperation = "+" /\ previousValue = Num(5 * Scale)

\* C19: the decimal key pressed while shouldResetDisplay is true leaves "0."
\* in the display and the flag false; pressed while it is false it appends
\* "." to a display without one and changes nothing in a display with one.
\* Pressed once more it leaves the state it has produced.
C19_DecimalPoint ==
    [][lastOp' = "decimal" =>
           /\ ~shouldResetDisplay'
           /\ mainDisplay' = IF shouldResetDisplay THEN <<"0", ".">>
                             ELSE IF Contains(mainDisplay, ".") THEN mainDisplay
                             ELSE mainDisplay \o <<".">>
           /\ (~shouldResetDisplay /\ Contains(mainDisplay, ".")) =>
                  UNCHANGED <<mainDisplay, operationDisplay, previousValue,
                              currentOperation, shouldResetDisplay>>
           /\ handleDecimal(State') = State']_vars

\* The decimal key pressed on "2.5".
C19_Witness ==
    lastOp = "decimal" /\ mainDisplay = <<"2", ".", "5">> /\ ~shouldResetDisplay

\* C20: the backspace key pressed on a display of more than one character
\* drops the last one and leaves shouldResetDisplay as it was; pressed on a
\* display of at most one character it leaves "0" and the flag true.
C20_Backspace ==
    [][lastOp' = "backspace" =>
           IF Len(mainDisplay) > 1
           THEN /\ mainDisplay' = SubSeq(mainDisplay, 1, Len(mainDisplay) - 1)
                /\ shouldResetDisplay' = shouldResetDisplay
           ELSE /\ mainDisplay' = <<"0">>
                /\ shouldResetDisplay']_vars

\* Backspace on the one digit typed as the right operand.
C20_Witness ==
    /\ lastOp = "backspace" /\ mainDisplay = <<"0">> /\ shouldResetDisplay
    /\ currentOperation = "+" /\ previousValue = Num(5 * Scale)

\* C21: right after an operator key or the modulo key, in whatever state it
\* was pressed, the display reads as a number and that number is
\* previousValue, the operand the indicator shows.
C21_DisplayIsPendingOperand ==
    lastOp \in {"operation", "operationAgain", "modulo"} =>
        /\ ParseFloat(mainDisplay).kind = "num"
        /\ ParseFloat(mainDisplay) = previousValue

\* The pending operation: the stored operand, the stored operator and the
\* indicator that shows them.
Pending == <<previousValue, currentOperation, operationDisplay>>

\* C22: a digit, the decimal point and backspace never change previousValue,
\* currentOperation or the indicator; a step that changes any of them is a
\* press of an operator key, modulo, equals or clear.
C22_PendingOperationFrame ==
    [][/\ lastOp' \in {"digit", "decimal", "backspace"} => Pending' = Pending
       /\ Pending' # Pending =>
              lastOp' \in {"operation", "operationAgain", "modulo", "equals", "clear"}]_vars

\* Backspace fell back to "0" under a pending operation and left it pending.
C22_Witness ==
    /\ lastOp = "backspace" /\ mainDisplay = <<"0">>
    /\ previousValue = Num(2 * Scale) /\ currentOperation = "*"
    /\ operationDisplay = <<"2", " ", "*">>

====
